---------------------------- MODULE Spec2Model ----------------------------
(***************************************************************************)
(* HMAX-Lite train simulator (backend/simulator.py, backend/stations.py,    *)
(* backend/main.py): the per-vehicle tick state machine of LineSimulator,   *)
(* the snapshot derivation get_train_status, and the callers of             *)
(* get_all_trains.                                                          *)
(*                                                                          *)
(* Numbers.  The program computes in floats; the model computes in fixed    *)
(* point, every quantity an integer number of the units below, products     *)
(* taken before quotients and quotients rounded toward minus infinity:      *)
(*   time      1/Sec second            (Sec = 4: quarter seconds)           *)
(*   speed     1/Kmh km/h              (Kmh = 100)                          *)
(*   progress  1/One of a segment      (One = 50000)                        *)
(*   distance  metres                                                       *)
(*   temperature 1/Deg degree Celsius  (Deg = 40)                           *)
(*   energy    1/Kwh kWh               (Kwh = 4000)                         *)
(*                                                                          *)
(* Vehicles.  update() runs the same loop body on every TrainState and a    *)
(* loop iteration reads and writes the fields of its own TrainState only;   *)
(* the model follows one vehicle of one line (any line, any of its          *)
(* vehicles, chosen in Init) through that loop body.                        *)
(*                                                                          *)
(* Randomness.  random.gauss and random.uniform read Python's global        *)
(* pseudo-random stream.  The stream the followed vehicle sees is a cyclic  *)
(* word over three quantile levels (0 low, 1 middle, 2 high), chosen in     *)
(* Init from Streams; every draw consumes one letter.                       *)
(*                                                                          *)
(* Callers.  Under Spec the calls of get_all_trains are made one at a time  *)
(* (the whole call is one step) at the clock gaps of a cyclic schedule      *)
(* chosen in Init from Schedules.  Under SpecConc two callers run           *)
(* get_all_trains concurrently (asyncio.to_thread in main.py), interleaved  *)
(* at the statements that read or write the shared TrainState.              *)
(***************************************************************************)
EXTENDS Integers, Sequences, FiniteSets, TLC

VARIABLES
    line,      \* LineSimulator.line of the followed vehicle's simulator
    trainNo,   \* the loop index i of _initialize_trains that built the vehicle
    train,     \* the vehicle's TrainState
    rng,       \* the pseudo-random stream: [word, pos]
    sched,     \* the callers' clock gaps under Spec: [word, pos]
    now,       \* the last value time.time() returned
    simTime,   \* history: the sum of the dt passed to _update_train so far
    pc,        \* per caller: where it is inside get_all_trains
    loc,       \* per caller: its locals current_time and dt, and the
               \* number of calls it has started under SpecConc
    obs,       \* per caller: the snapshots its last completed call returned
    reply      \* the last request of the HTTP layer and what it was answered

vars == <<line, trainNo, train, rng, sched, now, simTime, pc, loc, obs, reply>>

---------------------------------------------------------------------------
(* Units *)

Sec == 2 * 2
Kmh == 10 * 10
One == 5 * 10000
Deg == Sec * 10
Kwh == Sec * 10 * 100

Min(a, b) == IF a <= b THEN a ELSE b
Max(a, b) == IF a >= b THEN a ELSE b
Abs(a) == IF a < 0 THEN -a ELSE a

---------------------------------------------------------------------------
(* Physics constants, simulator.py:38-50 *)

MAX_SPEED_KMH == 80
STATION_DWELL_TIME == 15
\* ACCELERATION_RATE = 1.2 m/s^2, in tenths
ACCELERATION_RATE_x10 == 12
\* BRAKE_START_PROGRESS = 0.75 and ACCEL_END_PROGRESS = 0.25, in percent
BRAKE_START_PERCENT == 75
ACCEL_END_PERCENT == 25
MIN_REGEN_TEMP == 40
MAX_REGEN_TEMP == 90
\* BASE_ENERGY_RECOVERY_RATE = 0.15 kWh per second, in hundredths
BASE_ENERGY_RECOVERY_RATE_x100 == 15
\* the overshoot margin of "MAX_SPEED_KMH + 5"
SPEED_MARGIN_KMH == 5
\* the baseline speed of the ETA estimate, "(train.speed_kmh + 40) / 2"
ETA_BASE_KMH == 40
\* the ETA cap and sentinel
ETA_CAP == 999

MaxSpeed == MAX_SPEED_KMH * Kmh
SpeedCeiling == (MAX_SPEED_KMH + SPEED_MARGIN_KMH) * Kmh
DwellTime == STATION_DWELL_TIME * Sec
BRAKE_START_PROGRESS == (One * BRAKE_START_PERCENT) \div 100
ACCEL_END_PROGRESS == (One * ACCEL_END_PERCENT) \div 100
MinTemp == MIN_REGEN_TEMP * Deg
MaxTemp == MAX_REGEN_TEMP * Deg

---------------------------------------------------------------------------
(* Route topology, stations.py *)

Lines == {"line1", "line2", "line3"}

\* the station ids of each line, in route order
StationIds ==
    [line1 |-> <<"L1-01", "L1-02", "L1-03", "L1-04", "L1-05", "L1-06", "L1-07",
                 "L1-08", "L1-09", "L1-10", "L1-11", "L1-12", "L1-13", "L1-14",
                 "L1-15">>,
     line2 |-> <<"L2-01", "L2-02", "L2-03", "L2-04", "L2-05", "L2-06", "L2-07",
                 "L2-08", "L2-09", "L2-10", "L2-11", "L2-12", "L2-13">>,
     line3 |-> <<"ST-01", "ST-02", "ST-03", "ST-04", "ST-05", "ST-06", "ST-07",
                 "ST-08", "ST-09", "ST-10", "ST-11">>]

\* the great-circle distance in metres between station k and station k+1
\* (1-based k) of each line: _calculate_distance on the stations' coordinates
SegmentMetres ==
    [line1 |-> <<1444, 1153, 1377, 1033, 1041, 1041, 920, 1153, 1342, 1037,
                 930, 804, 1688, 3072>>,
     line2 |-> <<2462, 1407, 1491, 1442, 1318, 1285, 1366, 1327, 1285, 1366,
                 1327, 4568>>,
     line3 |-> <<2166, 3592, 1739, 2037, 2218, 2266, 3598, 5846, 1121, 1215>>]

\* len(self.stations)
NumStations(ln) == Len(StationIds[ln])

\* the vehicles per line that TrainSimulator builds
NumTrains == [line1 |-> 4, line2 |-> 4, line3 |-> 5]

\* _calculate_distance between two stations of a line, in metres; the
\* simulator only asks for a station and its neighbour
SegmentDistance(ln, a, b) ==
    IF a = b THEN 0 ELSE SegmentMetres[ln][Min(a, b) + 1]

\* get_station_index: the 0-based index of the id in the line, -1 if absent
get_station_index(station_id, ln) ==
    IF \E k \in 1..Len(StationIds[ln]) : StationIds[ln][k] = station_id
    THEN (CHOOSE k \in 1..Len(StationIds[ln]) :
             /\ StationIds[ln][k] = station_id
             /\ \A j \in 1..(k - 1) : StationIds[ln][j] # station_id) - 1
    ELSE -1

TUNNEL_ENTRY_STATION == "ST-02"
TUNNEL_EXIT_STATION == "ST-03"

\* is_in_tunnel_section(current_station_idx, progress, line = LINE_3)
is_in_tunnel_section(current_station_idx, progress, ln) ==
    IF ln # "line3" THEN FALSE
    ELSE LET tunnel_entry_idx == get_station_index(TUNNEL_ENTRY_STATION, ln)
         IN  IF current_station_idx = tunnel_entry_idx /\ progress > 0
             THEN TRUE
             ELSE FALSE

---------------------------------------------------------------------------
(* The pseudo-random stream *)

Levels == {0, 1, 2}

\* the cyclic words a stream may follow
Streams == << <<2>>, <<0>>, <<1>>, <<0, 1, 2>>, <<0, 2, 1>>, <<2, 2, 0>> >>

\* the k-th next letter (k = 0 for the next draw)
Draw(r, k) ==
    LET w == Streams[r.word] IN w[((r.pos - 1 + k) % Len(w)) + 1]

\* the stream after n draws
Consume(r, n) ==
    [r EXCEPT !.pos = ((r.pos - 1 + n) % Len(Streams[r.word])) + 1]

\* random.gauss(0, 0.5) in speed units: minus one, zero, plus one sigma
GAUSS_SIGMA_x100 == 50
Gauss(level) == (level - 1) * ((GAUSS_SIGMA_x100 * Kmh) \div 100)

\* random.uniform(lo, hi) at the low end, the middle, the high end;
\* lo and hi in tenths
Uniform_x10(lo, hi, level) == lo + (level * (hi - lo)) \div 2

\* the jitter bands, in tenths
ENERGY_JITTER_LO_x10 == 8
ENERGY_JITTER_HI_x10 == 12
HEAT_JITTER_LO_x10 == 5
HEAT_JITTER_HI_x10 == 20
COOL_JITTER_LO_x10 == 1
COOL_JITTER_HI_x10 == 5
MOTOR_NOISE_AMPS == 20

---------------------------------------------------------------------------
(* Python's int() and round() *)

\* a variant of PyInt that rounds toward minus infinity, as a floor would
PyFloor(num, den) == num \div den

\* int(num / den) for den > 0: truncation toward zero
PyInt(num, den) ==
    IF num >= 0 THEN num \div den ELSE -((-num) \div den)

\* round(num / den) for den > 0: to the nearest integer, ties to even
PyRound(num, den) ==
    LET q == num \div den
        r == num - q * den
    IN  IF 2 * r < den THEN q
        ELSE IF 2 * r > den THEN q + 1
        ELSE IF q % 2 = 0 THEN q ELSE q + 1

---------------------------------------------------------------------------
(* LineSimulator._get_target_speed, simulator.py:163-184 *)

\* a variant of _get_target_speed that cruises to the end of the segment
TargetSpeedWithoutRampDown(progress, at_station) ==
    IF at_station THEN 0
    ELSE IF progress < ACCEL_END_PROGRESS
         THEN (MaxSpeed * progress) \div ACCEL_END_PROGRESS
    ELSE MaxSpeed

_get_target_speed(progress, at_station) ==
    IF at_station THEN 0
    ELSE IF progress < ACCEL_END_PROGRESS
         THEN (MaxSpeed * progress) \div ACCEL_END_PROGRESS
    ELSE IF progress > BRAKE_START_PROGRESS
         THEN MaxSpeed
              - (MaxSpeed * (progress - BRAKE_START_PROGRESS))
                    \div (One - BRAKE_START_PROGRESS)
    ELSE MaxSpeed

---------------------------------------------------------------------------
(* LineSimulator._update_train, simulator.py:186-262, statement by statement *)

\* a variant of EndOfLine that turns round one stop before the terminus
EndOfLineEarly(current_station_idx, direction, n) ==
    LET next_station_idx == current_station_idx + direction
    IN  IF next_station_idx >= n - 1
        THEN [direction |-> -1, next_station_idx |-> current_station_idx - 1]
        ELSE IF next_station_idx < 0
        THEN [direction |-> 1, next_station_idx |-> current_station_idx + 1]
        ELSE [direction |-> direction, next_station_idx |-> next_station_idx]

\* a variant of EndOfLine that wraps round to the other end of the route
EndOfLineWrap(current_station_idx, direction, n) ==
    LET next_station_idx == current_station_idx + direction
    IN  IF next_station_idx >= n
        THEN [direction |-> direction, next_station_idx |-> 0]
        ELSE IF next_station_idx < 0
        THEN [direction |-> direction, next_station_idx |-> n - 1]
        ELSE [direction |-> direction, next_station_idx |-> next_station_idx]

\* a variant of EndOfLine that never turns round
EndOfLineNoTurn(current_station_idx, direction, n) ==
    [direction |-> direction, next_station_idx |-> current_station_idx + direction]

\* 202-210: the next station index and the direction after the end-of-line
\* check, for a route of n stations
EndOfLine(current_station_idx, direction, n) ==
    LET next_station_idx == current_station_idx + direction
    IN  IF next_station_idx >= n
        THEN [direction |-> -1, next_station_idx |-> current_station_idx - 1]
        ELSE IF next_station_idx < 0
        THEN [direction |-> 1, next_station_idx |-> current_station_idx + 1]
        ELSE [direction |-> direction, next_station_idx |-> next_station_idx]

\* 225: max_speed_change = ACCELERATION_RATE * dt * 3.6
MaxSpeedChange(dt) ==
    (ACCELERATION_RATE_x10 * dt * 36 * Kmh) \div (100 * Sec)

\* a variant of SmoothSpeed that takes the target speed at once
SmoothSpeedSnapping(speed_kmh, target_speed, dt) == target_speed

\* 224-232: the speed after the smooth transition toward target_speed
SmoothSpeed(speed_kmh, target_speed, dt) ==
    LET speed_diff == target_speed - speed_kmh
        max_speed_change == MaxSpeedChange(dt)
    IN  IF Abs(speed_diff) <= max_speed_change THEN target_speed
        ELSE IF speed_diff > 0 THEN speed_kmh + max_speed_change
        ELSE speed_kmh - max_speed_change

\* a variant of ClampSpeed without the lower clamp
ClampSpeedUpperOnly(speed_kmh) == Min(SpeedCeiling, speed_kmh)

\* 236: max(0, min(MAX_SPEED_KMH + 5, speed))
ClampSpeed(speed_kmh) == Max(0, Min(SpeedCeiling, speed_kmh))

\* floor(x * One / d) for d > 0, computed in two stages (One = 500 * 100) so
\* that no intermediate product leaves the 32-bit integers of the checker
ScaleToProgress(x, d) ==
    LET y == x * (One \div 100)
    IN  (y \div d) * 100 + ((y % d) * 100) \div d

\* 239-242: the progress after the position update:
\* progress += (speed_kmh / 3600) / segment_distance_km * dt, where
\* (Kmh * 3600 * Sec) / 1000 speed-time units make one metre
AdvanceProgress(progress, speed_kmh, segment_distance, dt) ==
    IF speed_kmh > 0 /\ segment_distance > 0
    THEN progress + ScaleToProgress(speed_kmh * dt,
                        ((Kmh * 3600 * Sec) \div 1000) * segment_distance)
    ELSE progress

\* a variant of Arrive that carries the progress into the next segment
ArriveKeepingProgress(t, next_station_idx) ==
    [t EXCEPT !.current_station_idx = next_station_idx,
              !.at_station = TRUE,
              !.station_dwell_remaining = DwellTime,
              !.speed_kmh = 0]

\* a variant of Arrive that leaves the speed as it was
ArriveWithoutStopping(t, next_station_idx) ==
    [t EXCEPT !.current_station_idx = next_station_idx,
              !.progress = 0,
              !.at_station = TRUE,
              !.station_dwell_remaining = DwellTime]

\* a variant of Arrive that carries the overshoot into the next segment
ArriveCarryingOver(t, next_station_idx) ==
    [t EXCEPT !.current_station_idx = next_station_idx,
              !.progress = @ - One,
              !.at_station = TRUE,
              !.station_dwell_remaining = DwellTime,
              !.speed_kmh = 0]

\* a variant of Arrive that stops at the station the vehicle left
ArriveWhereItLeft(t, next_station_idx) ==
    [t EXCEPT !.progress = 0,
              !.at_station = TRUE,
              !.station_dwell_remaining = DwellTime,
              !.speed_kmh = 0]

\* 245-250: arrival at the next station
Arrive(t, next_station_idx) ==
    [t EXCEPT !.current_station_idx = next_station_idx,
              !.progress = 0,
              !.at_station = TRUE,
              !.station_dwell_remaining = DwellTime,
              !.speed_kmh = 0]

\* a variant of IsBraking that starts where the acceleration phase ends
IsBrakingFromCruise(progress, at_station) ==
    progress > ACCEL_END_PROGRESS /\ ~at_station

\* 253 (and 309): is_braking
IsBraking(progress, at_station) ==
    progress > BRAKE_START_PROGRESS /\ ~at_station

\* a variant of RecoverEnergy with the sign of the increment reversed
RecoverEnergyReversed(total_energy_recovered, dt, level) ==
    total_energy_recovered
        - BASE_ENERGY_RECOVERY_RATE_x100 * dt
            * Uniform_x10(ENERGY_JITTER_LO_x10, ENERGY_JITTER_HI_x10, level)

\* a variant of HeatUp without the clamp at MAX_REGEN_TEMP
HeatUpUnclamped(regen_temp, dt, level) ==
    regen_temp + dt * Uniform_x10(HEAT_JITTER_LO_x10, HEAT_JITTER_HI_x10, level)

\* 257: total_energy_recovered += BASE_ENERGY_RECOVERY_RATE * dt * uniform(0.8, 1.2)
RecoverEnergy(total_energy_recovered, dt, level) ==
    total_energy_recovered
        + BASE_ENERGY_RECOVERY_RATE_x100 * dt
            * Uniform_x10(ENERGY_JITTER_LO_x10, ENERGY_JITTER_HI_x10, level)

\* 259: regen_temp = min(MAX_REGEN_TEMP, regen_temp + dt * uniform(0.5, 2.0))
HeatUp(regen_temp, dt, level) ==
    Min(MaxTemp,
        regen_temp + dt * Uniform_x10(HEAT_JITTER_LO_x10, HEAT_JITTER_HI_x10, level))

\* 262: regen_temp = max(MIN_REGEN_TEMP, regen_temp - dt * uniform(0.1, 0.5))
CoolDown(regen_temp, dt, level) ==
    Max(MinTemp,
        regen_temp - dt * Uniform_x10(COOL_JITTER_LO_x10, COOL_JITTER_HI_x10, level))

\* a variant of Dwell that counts the dwell down twice as fast
DwellCountingDouble(t, dt) ==
    [t EXCEPT !.station_dwell_remaining = @ - 2 * dt, !.speed_kmh = 0]

\* 191-195: the dwelling branch that returns early
Dwell(t, dt) ==
    [t EXCEPT !.station_dwell_remaining = @ - dt, !.speed_kmh = 0]

\* 196-199: depart the station
Depart(t) ==
    IF t.at_station THEN [t EXCEPT !.at_station = FALSE, !.progress = 0] ELSE t

\* 196-242: the vehicle after departure, the end-of-line check, the speed
\* update and the position update, before the arrival check; one draw (gauss)
Advance(t, dt, ln, r) ==
    LET t1 == Depart(t)
        eol == EndOfLine(t1.current_station_idx, t1.direction, NumStations(ln))
        segment_distance ==
            SegmentDistance(ln, t1.current_station_idx, eol.next_station_idx)
        target_speed == _get_target_speed(t1.progress, t1.at_station)
        speed == ClampSpeed(SmoothSpeed(t1.speed_kmh, target_speed, dt)
                            + Gauss(Draw(r, 0)))
        progress == AdvanceProgress(t1.progress, speed, segment_distance, dt)
    IN  [t1 EXCEPT !.direction = eol.direction,
                   !.speed_kmh = speed,
                   !.progress = progress]

\* 196-250: the movement of a vehicle that is not held by its dwell
Move(t, dt, ln, r) ==
    LET t2 == Advance(t, dt, ln, r)
        eol == EndOfLine(t.current_station_idx, t.direction, NumStations(ln))
    IN  IF t2.progress >= One THEN Arrive(t2, eol.next_station_idx) ELSE t2

\* 252-262: the regenerative braking telemetry; the draws start at the k-th
Telemetry(t, dt, r, k) ==
    IF IsBraking(t.progress, t.at_station)
    THEN [t EXCEPT
            !.total_energy_recovered = RecoverEnergy(@, dt, Draw(r, k)),
            !.regen_temp = HeatUp(@, dt, Draw(r, k + 1))]
    ELSE [t EXCEPT !.regen_temp = CoolDown(@, dt, Draw(r, k))]

\* the number of draws _update_train makes on t
UpdateDraws(t, dt, ln, r) ==
    IF t.at_station /\ t.station_dwell_remaining > 0 THEN 0
    ELSE LET m == Move(t, dt, ln, r)
         IN  IF IsBraking(m.progress, m.at_station) THEN 3 ELSE 2

\* _update_train(train, dt): the TrainState after the tick
_update_train(t, dt, ln, r) ==
    IF t.at_station /\ t.station_dwell_remaining > 0
    THEN Dwell(t, dt)
    ELSE Telemetry(Move(t, dt, ln, r), dt, r, 1)

\* a variant of ElapsedDt without the cap
ElapsedDtUncapped(current_time, last_update_time) ==
    current_time - last_update_time

\* 269-270: dt = min(current_time - last_update_time, 1.0)
ElapsedDt(current_time, last_update_time) ==
    Min(current_time - last_update_time, Sec)

---------------------------------------------------------------------------
(* LineSimulator.get_train_status, simulator.py:282-358 *)

\* 287-291: the next station index of the snapshot
StatusNextIdx(t, ln) ==
    LET next_station_idx == t.current_station_idx + t.direction
    IN  IF next_station_idx >= NumStations(ln) THEN t.current_station_idx - 1
        ELSE IF next_station_idx < 0 THEN 1
        ELSE next_station_idx

\* 304-306: in_tunnel, checked for Line 3 only
InTunnel(t, ln) ==
    IF ln = "line3"
    THEN is_in_tunnel_section(t.current_station_idx, t.progress, "line3")
    ELSE FALSE

\* 317-319: the distance in metres from the interpolated position to the
\* next station.  The position is interpolated linearly in latitude and
\* longitude, so over one segment the distance left is the segment's length
\* times the part of the segment not yet covered.
RemainingDistance(t, ln) ==
    (SegmentDistance(ln, t.current_station_idx, StatusNextIdx(t, ln))
        * (One - t.progress)) \div One

\* 312-324: eta_seconds; avg_speed_kms = (speed_kmh + 40) / 2 / 3600, and
\* 2 * 3600 / 1000 = 36 / 5 turns metres over km/h into seconds
EtaSeconds(t, ln) ==
    IF t.at_station THEN PyInt(t.station_dwell_remaining, Sec)
    ELSE IF t.speed_kmh > 0
    THEN IF t.speed_kmh + ETA_BASE_KMH * Kmh > 0
         THEN PyInt(RemainingDistance(t, ln) * 36 * Kmh,
                    5 * (t.speed_kmh + ETA_BASE_KMH * Kmh))
         ELSE ETA_CAP
    ELSE ETA_CAP

\* a variant of _get_direction_string that labels every line east-west
DirectionStringEastWest(t, ln) ==
    IF t.direction = -1 THEN "EASTBOUND" ELSE "WESTBOUND"

\* 275-280: _get_direction_string
_get_direction_string(t, ln) ==
    IF ln = "line1"
    THEN IF t.direction = -1 THEN "NORTHBOUND" ELSE "SOUTHBOUND"
    ELSE IF t.direction = -1 THEN "EASTBOUND" ELSE "WESTBOUND"

\* 113: train_id
TrainId(ln, i) == <<ln, i + 1>>

\* random.uniform(-20, 20) of the motor current, in amperes
MotorNoise(level) == (level - 1) * MOTOR_NOISE_AMPS

\* get_train_status(train): the published TrainStatus; one draw (the motor
\* current's noise).  speed_kmh, regen_braking_temp and motor_current_amps
\* in tenths, energy_recovered_kwh in hundredths, as round() leaves them.
get_train_status(t, ln, i, r) ==
    LET in_tunnel == InTunnel(t, ln)
    IN  [id |-> TrainId(ln, i),
         line |-> ln,
         current_station_id |-> StationIds[ln][t.current_station_idx + 1],
         next_station_id |-> StationIds[ln][StatusNextIdx(t, ln) + 1],
         progress |-> t.progress,
         speed_kmh |-> PyRound(t.speed_kmh * 10, Kmh),
         b_chop_status |-> IsBraking(t.progress, t.at_station),
         energy_recovered_kwh |-> PyRound(t.total_energy_recovered * 100, Kwh),
         regen_braking_temp |-> PyRound(t.regen_temp * 10, Deg),
         motor_current_amps |->
             PyRound(t.speed_kmh * 8 * 10 + MotorNoise(Draw(r, 0)) * 10 * Kmh,
                     Kmh),
         door_status |-> IF t.at_station THEN "OPEN" ELSE "CLOSED",
         is_in_tunnel |-> in_tunnel,
         comms_mode |-> IF in_tunnel THEN "TUNNEL_RELAY" ELSE "NORMAL",
         direction |-> _get_direction_string(t, ln),
         next_station_eta_seconds |-> Min(EtaSeconds(t, ln), ETA_CAP),
         at_station |-> t.at_station]

\* models.py: the bounds pydantic enforces on the fields of a TrainStatus
\* (speed_kmh le=100, regen_braking_temp ge=20 le=120)
SPEED_FIELD_MAX == 100
TEMP_FIELD_MIN == 20
TEMP_FIELD_MAX == 120

\* models.py:34-65: the Field constraints of TelemetryData, TrainPosition
\* and TrainStatus that the constructors called at 327-357 check
ValidStatus(s) ==
    /\ 0 <= s.progress /\ s.progress <= One
    /\ 0 <= s.speed_kmh /\ s.speed_kmh <= SPEED_FIELD_MAX * 10
    /\ 0 <= s.energy_recovered_kwh
    /\ TEMP_FIELD_MIN * 10 <= s.regen_braking_temp
    /\ s.regen_braking_temp <= TEMP_FIELD_MAX * 10
    /\ 0 <= s.next_station_eta_seconds

\* what the caller of get_all_trains receives: the snapshots, or nothing when
\* a constructor raised ValidationError (the stream then sends an empty frame)
Published(s) == IF ValidStatus(s) THEN <<s>> ELSE <<>>

\* a variant of StateAfterStatus that, like the tick, writes the reversed
\* direction when the next index runs off the route
StateAfterStatusTurning(t, ln) ==
    LET next_station_idx == t.current_station_idx + t.direction
    IN  IF next_station_idx >= NumStations(ln) THEN [t EXCEPT !.direction = -1]
        ELSE IF next_station_idx < 0 THEN [t EXCEPT !.direction = 1]
        ELSE t

\* get_train_status(train): the TrainState the call leaves behind; the
\* method reads train and assigns to none of its attributes
StateAfterStatus(t, ln) == t

---------------------------------------------------------------------------
(* LineSimulator._initialize_trains, simulator.py:88-125 *)

\* 95: start_station_idx
StartStationIdx(i, ln) == (i * 2) % Max(1, NumStations(ln) - 1)

\* 98: direction
StartDirection(i) == IF i % 2 = 0 THEN 1 ELSE -1

\* random.uniform(lo, hi) of the constructor, lo and hi whole numbers, in
\* 1/unit
UniformInit(lo, hi, unit, level) == lo * unit + (level * (hi - lo) * unit) \div 2

\* 100-124: the TrainState the constructor builds for vehicle i when its
\* draws are the next letters of r (random.random() < 0.3 at level 0 only)
InitialTrain(i, ln, r) ==
    IF Draw(r, 0) = 0
    THEN [current_station_idx |-> StartStationIdx(i, ln),
          progress |-> 0,
          direction |-> StartDirection(i),
          speed_kmh |-> 0,
          at_station |-> TRUE,
          station_dwell_remaining |->
              UniformInit(0, STATION_DWELL_TIME, Sec, Draw(r, 1)),
          total_energy_recovered |-> UniformInit(0, 50, Kwh, Draw(r, 2)),
          regen_temp |-> UniformInit(42, 55, Deg, Draw(r, 3)),
          last_update_time |-> 0]
    ELSE [current_station_idx |-> StartStationIdx(i, ln),
          progress |-> UniformInit(1, 9, One \div 10, Draw(r, 1)),
          direction |-> StartDirection(i),
          speed_kmh |-> UniformInit(40, 70, Kmh, Draw(r, 2)),
          at_station |-> FALSE,
          station_dwell_remaining |-> 0,
          total_energy_recovered |-> UniformInit(0, 50, Kwh, Draw(r, 3)),
          regen_temp |-> UniformInit(42, 55, Deg, Draw(r, 4)),
          last_update_time |-> 0]

\* the draws the constructor makes for one vehicle
InitDraws(r) == IF Draw(r, 0) = 0 THEN 4 ELSE 5

---------------------------------------------------------------------------
(* The callers *)

Callers == {1, 2}

\* the cyclic clock gaps, in time units, between successive calls under
\* Spec: the 1 Hz stream, a slow uneven poller (gaps above one second), a
\* 2 Hz poller, the stream with a request served at the same clock reading,
\* and a burst of requests within one clock reading
Schedules == << <<4>>, <<7, 7, 3>>, <<2>>, <<4, 0>>, <<0>> >>

Gap(sc) == Schedules[sc.word][sc.pos]
NextGap(sc) == [sc EXCEPT !.pos = (sc.pos % Len(Schedules[sc.word])) + 1]

\* the clock value at which the model stops taking calls
MaxTime == 2100

Idle == [c \in Callers |-> "idle"]
NoLocals == [c \in Callers |-> [current_time |-> 0, dt |-> 0, calls |-> 0]]
NoSnapshot == [c \in Callers |-> <<>>]
NoReply == [op |-> "none", line_id |-> "", train_id |-> <<>>, status |-> 0,
            trains |-> <<>>, stations |-> <<>>]

Init ==
    /\ line \in Lines
    /\ trainNo \in 0..(NumTrains[line] - 1)
    /\ sched \in {[word |-> w, pos |-> 1] : w \in 1..Len(Schedules)}
    /\ \E w \in 1..Len(Streams) : \E p \in 1..Len(Streams[w]) :
          LET r == [word |-> w, pos |-> p]
          IN  /\ train = InitialTrain(trainNo, line, r)
              /\ rng = Consume(r, InitDraws(r))
    /\ now = 0
    /\ simTime = 0
    /\ pc = Idle
    /\ loc = NoLocals
    /\ obs = NoSnapshot
    /\ reply = NoReply

\* LineSimulator.get_all_trains (360-363) called by caller c with nobody
\* else inside it: update() (264-273) samples the clock, ticks the vehicle
\* by the capped elapsed time and stamps it, then get_train_status derives
\* the snapshot
LineGetAllTrains(c) ==
    /\ now < MaxTime
    /\ LET current_time == now + Gap(sched)
           dt == ElapsedDt(current_time, train.last_update_time)
           t1 == _update_train(train, dt, line, rng)
           r1 == Consume(rng, UpdateDraws(train, dt, line, rng))
           t2 == [t1 EXCEPT !.last_update_time = current_time]
       IN  /\ now' = current_time
           /\ train' = StateAfterStatus(t2, line)
           /\ simTime' = simTime + dt
           /\ obs' = [obs EXCEPT ![c] =
                         Published(get_train_status(t2, line, trainNo, r1))]
           /\ rng' = Consume(r1, 1)
    /\ sched' = NextGap(sched)
    /\ UNCHANGED <<line, trainNo, pc, loc>>

\* the same call made by a stream subscriber, with no HTTP request answered
GetAllTrains(c) == LineGetAllTrains(c) /\ UNCHANGED reply

Next == GetAllTrains(1)

Spec == Init /\ [][Next]_vars

---------------------------------------------------------------------------
(* Two concurrent callers.  main.py:258 runs simulator.get_all_trains in a  *)
(* worker thread per stream subscriber (asyncio.to_thread), and nothing in  *)
(* LineSimulator takes a lock, so the callers interleave at the statements  *)
(* of update() that read and write the shared TrainState.                   *)

\* the clock value at which the clock of SpecConc stops, and the calls each
\* caller makes
ConcMaxTime == 4
MaxCalls == 2

\* the followed vehicle and the stream of SpecConc: the first Line 3 vehicle
\* built mid-route
InitConc ==
    /\ Init
    /\ line = "line3"
    /\ trainNo = 0
    /\ rng.word = 1
    /\ sched = [word |-> 1, pos |-> 1]

\* wall-clock time passes
Tock ==
    /\ now < ConcMaxTime
    /\ now' = now + (Sec \div 2)
    /\ UNCHANGED <<line, trainNo, train, rng, sched, simTime, pc, loc, obs,
                 reply>>

\* 266: current_time = time.time()
Sample(c) ==
    /\ pc[c] = "idle"
    /\ loc[c].calls < MaxCalls
    /\ loc' = [loc EXCEPT ![c].current_time = now, ![c].calls = @ + 1]
    /\ pc' = [pc EXCEPT ![c] = "elapsed"]
    /\ UNCHANGED <<line, trainNo, train, rng, sched, now, simTime, obs, reply>>

\* 269-270: dt = min(current_time - train.last_update_time, 1.0)
ReadElapsed(c) ==
    /\ pc[c] = "elapsed"
    /\ loc' = [loc EXCEPT
                 ![c].dt = ElapsedDt(loc[c].current_time, train.last_update_time)]
    /\ pc' = [pc EXCEPT ![c] = "tick"]
    /\ UNCHANGED <<line, trainNo, train, rng, sched, now, simTime, obs, reply>>

\* 272: self._update_train(train, dt)
Tick(c) ==
    /\ pc[c] = "tick"
    /\ train' = _update_train(train, loc[c].dt, line, rng)
    /\ rng' = Consume(rng, UpdateDraws(train, loc[c].dt, line, rng))
    /\ simTime' = simTime + loc[c].dt
    /\ pc' = [pc EXCEPT ![c] = "stamp"]
    /\ UNCHANGED <<line, trainNo, sched, now, loc, obs, reply>>

\* 273: train.last_update_time = current_time
Stamp(c) ==
    /\ pc[c] = "stamp"
    /\ train' = [train EXCEPT !.last_update_time = loc[c].current_time]
    /\ pc' = [pc EXCEPT ![c] = "status"]
    /\ UNCHANGED <<line, trainNo, rng, sched, now, simTime, loc, obs, reply>>

\* 363: return [self.get_train_status(train) for train in self.trains]
Status(c) ==
    /\ pc[c] = "status"
    /\ obs' = [obs EXCEPT ![c] =
                  Published(get_train_status(train, line, trainNo, rng))]
    /\ train' = StateAfterStatus(train, line)
    /\ rng' = Consume(rng, 1)
    /\ pc' = [pc EXCEPT ![c] = "idle"]
    /\ UNCHANGED <<line, trainNo, sched, now, simTime, loc, reply>>

NextConc ==
    \/ Tock
    \/ \E c \in Callers : Sample(c)
    \/ \E c \in Callers : ReadElapsed(c)
    \/ \E c \in Callers : Tick(c)
    \/ \E c \in Callers : Stamp(c)
    \/ \E c \in Callers : Status(c)

SpecConc == InitConc /\ [][NextConc]_vars

---------------------------------------------------------------------------
(* Two callers, with the arrival block of _update_train (245-250) taken     *)
(* apart into its five attribute writes.  A caller that has finished its    *)
(* own update() may derive its snapshots between any two of them.  The      *)
(* calls of update() themselves come at the clock gaps of the 1 Hz          *)
(* schedule; the interleavings in which a second update() starts in the     *)
(* middle of an arrival are left out.                                       *)

\* where a caller stands inside the arrival block: before the write of
\* line 247, 248, 249, 250
Arriving == {"w247", "w248", "w249", "w250"}

\* the clock value at which the callers of SpecTorn stop calling
TornMaxTime == 32

\* the third vehicle of Line 1, which starts on one of the short segments,
\* under the 1 Hz schedule
InitTorn ==
    /\ Init
    /\ line = "line1"
    /\ trainNo = 2
    /\ sched = [word |-> 1, pos |-> 1]

\* 264-273 with 186-262: update() by caller c up to the end of the tick, or,
\* when the tick arrives, up to the write of current_station_idx (246)
UpdateStart(c) ==
    /\ pc[c] = "idle"
    /\ \A d \in Callers : pc[d] \notin Arriving
    /\ now < TornMaxTime
    /\ LET current_time == now + Gap(sched)
           dt == ElapsedDt(current_time, train.last_update_time)
           held == train.at_station /\ train.station_dwell_remaining > 0
           t2 == Advance(train, dt, line, rng)
           eol == EndOfLine(train.current_station_idx, train.direction,
                            NumStations(line))
       IN  /\ now' = current_time
           /\ simTime' = simTime + dt
           /\ loc' = [loc EXCEPT ![c] = [current_time |-> current_time,
                                         dt |-> dt, calls |-> @.calls + 1]]
           /\ IF ~held /\ t2.progress >= One
              THEN /\ train' = [t2 EXCEPT
                                  !.current_station_idx = eol.next_station_idx]
                   /\ rng' = Consume(rng, 1)
                   /\ pc' = [pc EXCEPT ![c] = "w247"]
              ELSE /\ train' = [_update_train(train, dt, line, rng) EXCEPT
                                  !.last_update_time = current_time]
                   /\ rng' = Consume(rng, UpdateDraws(train, dt, line, rng))
                   /\ pc' = [pc EXCEPT ![c] = "status"]
    /\ sched' = NextGap(sched)
    /\ UNCHANGED <<line, trainNo, obs, reply>>

\* 247-249: the next write of the arrival block
ArrivalWrite(c) ==
    /\ pc[c] \in {"w247", "w248", "w249"}
    /\ train' = CASE pc[c] = "w247" -> [train EXCEPT !.progress = 0]
                  [] pc[c] = "w248" -> [train EXCEPT !.at_station = TRUE]
                  [] pc[c] = "w249" ->
                         [train EXCEPT !.station_dwell_remaining = DwellTime]
    /\ pc' = [pc EXCEPT ![c] = CASE pc[c] = "w247" -> "w248"
                                 [] pc[c] = "w248" -> "w249"
                                 [] pc[c] = "w249" -> "w250"]
    /\ UNCHANGED <<line, trainNo, rng, sched, now, simTime, loc, obs, reply>>

\* 250-262 and 273: the last write of the arrival block (after it the
\* vehicle is as Arrive leaves it), the telemetry and the stamp
FinishArrival(c) ==
    /\ pc[c] = "w250"
    /\ train' = [Telemetry(Arrive(train, train.current_station_idx),
                           loc[c].dt, rng, 0)
                    EXCEPT !.last_update_time = loc[c].current_time]
    /\ rng' = Consume(rng, 1)
    /\ pc' = [pc EXCEPT ![c] = "status"]
    /\ UNCHANGED <<line, trainNo, sched, now, simTime, loc, obs, reply>>

NextTorn ==
    \/ \E c \in Callers : UpdateStart(c)
    \/ \E c \in Callers : ArrivalWrite(c)
    \/ \E c \in Callers : FinishArrival(c)
    \/ \E c \in Callers : Status(c)

SpecTorn == InitTorn /\ [][NextTorn]_vars

---------------------------------------------------------------------------
(* The HTTP layer of main.py.  Its handlers take a line identifier or a     *)
(* train identifier from the request.  The two train handlers first call    *)
(* get_all_trains of the simulator, which ticks the vehicles; of the list   *)
(* it returns the model holds the followed vehicle's snapshot.              *)

\* the clock value at which the requests of SpecRest stop
RestMaxTime == 8

\* the ?line= and {line_id} values requests carry: the three lines, a line
\* that does not exist, and "" for a request without the parameter
RequestLineIds == Lines \cup {"line9", ""}

\* the {train_id} values requests carry: vehicles the simulators built, the
\* number after the last vehicle of a line, and a vehicle of no line
RequestTrainIds ==
    {TrainId(ln, i) : ln \in Lines \cup {"line9"}, i \in {0, 2, 5}}

\* simulator.py:101-122, 371-377: the identifiers of the vehicles built
FleetIds ==
    UNION {{TrainId(ln, i) : i \in 0..(NumTrains[ln] - 1)} : ln \in Lines}

\* main.py:154-173: the stations of a line, or 404 for a line that is not in
\* LINE_METADATA
get_line_stations(line_id) ==
    IF line_id \notin Lines
    THEN [NoReply EXCEPT !.op = "stations", !.line_id = line_id,
                         !.status = 404]
    ELSE [NoReply EXCEPT !.op = "stations", !.line_id = line_id,
                         !.status = 200, !.stations = StationIds[line_id]]

\* main.py:193-195: the list comprehension of the line filter, skipped for
\* a parameter that is None or empty
FilterByLine(trains, ln) ==
    IF ln = "" THEN trains
    ELSE SelectSeq(trains, LAMBDA t : t.line = ln)

\* main.py:180-209: the train list, filtered by line when the request names
\* one; the reply is built whatever the filter left
get_all_trains(trains, ln) ==
    [NoReply EXCEPT !.op = "trains", !.line_id = ln, !.status = 200,
                    !.trains = FilterByLine(trains, ln)]

\* main.py:212-227: the first snapshot with the requested id, or 404
get_train(trains, train_id) ==
    LET found == SelectSeq(trains, LAMBDA t : t.id = train_id)
    IN  IF found # <<>>
        THEN [NoReply EXCEPT !.op = "train", !.train_id = train_id,
                             !.status = 200, !.trains = <<Head(found)>>]
        ELSE [NoReply EXCEPT !.op = "train", !.train_id = train_id,
                             !.status = 404]

InitRest ==
    /\ Init
    /\ line = "line3"
    /\ trainNo = 2
    /\ sched = [word |-> 1, pos |-> 1]

\* GET /api/lines/{line_id}/stations
RequestStations ==
    /\ \E line_id \in RequestLineIds : reply' = get_line_stations(line_id)
    /\ UNCHANGED <<line, trainNo, train, rng, sched, now, simTime, pc, loc,
                   obs>>

\* GET /api/trains and GET /api/trains?line=...
RequestTrains(c) ==
    /\ now < RestMaxTime
    /\ LineGetAllTrains(c)
    /\ \E ln \in RequestLineIds : reply' = get_all_trains(obs'[c], ln)

\* GET /api/trains/{train_id}
RequestTrain(c) ==
    /\ now < RestMaxTime
    /\ LineGetAllTrains(c)
    /\ \E train_id \in RequestTrainIds : reply' = get_train(obs'[c], train_id)

NextRest ==
    \/ RequestStations
    \/ RequestTrains(1)
    \/ RequestTrain(1)

SpecRest == InitRest /\ [][NextRest]_vars

---------------------------------------------------------------------------
(* _get_target_speed on its own: every progress of the fixed-point grid and *)
(* both values of at_station, carried in a TrainState; the step stores the  *)
(* result where line 229 stores a target within reach, in speed_kmh.        *)

InitProfile ==
    /\ line = "line1"
    /\ trainNo = 0
    /\ rng = [word |-> 1, pos |-> 1]
    /\ sched = [word |-> 1, pos |-> 1]
    /\ \E progress \in 0..One : \E at_station \in BOOLEAN :
          train = [InitialTrain(trainNo, line, rng)
                      EXCEPT !.progress = progress,
                             !.at_station = at_station,
                             !.speed_kmh = 0]
    /\ now = 0
    /\ simTime = 0
    /\ pc = Idle
    /\ loc = NoLocals
    /\ obs = NoSnapshot
    /\ reply = NoReply

\* 221 and 229: target_speed = _get_target_speed(progress, at_station),
\* taken as the speed
TakeTargetSpeed ==
    /\ pc[1] = "idle"
    /\ train' = [train EXCEPT !.speed_kmh =
                    _get_target_speed(train.progress, train.at_station)]
    /\ pc' = [pc EXCEPT ![1] = "target"]
    /\ UNCHANGED <<line, trainNo, rng, sched, now, simTime, loc, obs, reply>>

NextProfile == TakeTargetSpeed

SpecProfile == InitProfile /\ [][NextProfile]_vars

---------------------------------------------------------------------------
(* The telemetry stream running for ever.  generate_telemetry_stream        *)
(* (main.py:255-280) calls get_all_trains, sleeps one second and calls      *)
(* again without end, so every tick gets the capped dt of 1 s.  The clock   *)
(* and the energy counter grow without bound and have no influence on where *)
(* the vehicle is: the clock is followed modulo 2 s and the energy counter  *)
(* is held at its initial value, which keeps the state space finite.        *)

InitLive ==
    /\ Init
    /\ line = "line3"
    /\ trainNo = 0
    /\ sched = [word |-> 1, pos |-> 1]

\* one round of the stream's loop: update() with dt = 1.0 and the snapshot
StreamTick ==
    \E t1 \in {_update_train(train, Sec, line, rng)} :
    \E r1 \in {Consume(rng, UpdateDraws(train, Sec, line, rng))} :
    \E t2 \in {[t1 EXCEPT
                  !.last_update_time = (now + Sec) % (2 * Sec),
                  !.total_energy_recovered = train.total_energy_recovered]} :
        /\ now' = (now + Sec) % (2 * Sec)
        /\ train' = StateAfterStatus(t2, line)
        /\ obs' = [obs EXCEPT ![1] =
                      Published(get_train_status(t2, line, trainNo, r1))]
        /\ rng' = Consume(r1, 1)
        /\ UNCHANGED <<line, trainNo, sched, simTime, pc, loc, reply>>

NextLive == StreamTick

\* the loop of the stream never stops calling
SpecLive == InitLive /\ [][NextLive]_vars /\ WF_vars(NextLive)

---------------------------------------------------------------------------
(* Properties *)

\* the streams that hold one level throughout: the jitter of one more tick
\* at its low end, its middle and its high end
SteadyStreams ==
    {[word |-> w, pos |-> 1] : w \in {v \in 1..Len(Streams) : Len(Streams[v]) = 1}}

\* the extremes of the elapsed times update() passes when the calls come
\* one at a time: none and the cap
SequentialDts == {0, Sec}

\* elapsed times beyond what update() passes to a tick: negative ones and
\* ones above the cap
AnyDts == {-Sec, 2 * Sec}

\* the TrainStates one more tick can leave, for the given elapsed times
TickResults(dts) ==
    {_update_train(train, dt, line, r) : dt \in dts, r \in SteadyStreams}

\* C1: when two callers run get_all_trains at once, the vehicle advances once
\* for the elapsed interval (the simulated time applied never exceeds the
\* wall-clock time elapsed), and two callers that sampled the same clock
\* reading return the same snapshot
AdvancesOnce == simTime <= now
SameSnapshot ==
    \A c, d \in Callers :
        (/\ pc[c] = "idle" /\ pc[d] = "idle"
         /\ obs[c] # <<>> /\ obs[d] # <<>>
         /\ loc[c].calls = loc[d].calls
         /\ loc[c].current_time = loc[d].current_time)
        => obs[c] = obs[d]
C1_AdvanceOnceSameSnapshot == AdvancesOnce /\ SameSnapshot

\* C2: progress is in [0, 1] in the initial state and after every tick with
\* 0 <= dt <= 1, whatever the jitter
C2_ProgressInUnitInterval ==
    /\ 0 <= train.progress /\ train.progress <= One
    /\ \A t \in TickResults(SequentialDts) : 0 <= t.progress /\ t.progress <= One
\* a tick has just brought the vehicle into a station
C2_JustArrived ==
    /\ train.at_station
    /\ train.station_dwell_remaining = DwellTime
    /\ train.progress = 0
    /\ simTime > 0

\* C3: speed is in [0, MAX_SPEED_KMH + 5] in the initial state and after
\* every tick, whatever dt and the jitter
C3_SpeedInRange ==
    /\ 0 <= train.speed_kmh /\ train.speed_kmh <= SpeedCeiling
    /\ \A t \in TickResults(AnyDts) : 0 <= t.speed_kmh /\ t.speed_kmh <= SpeedCeiling
\* a vehicle in transit stands still: the jitter met the lower clamp
C3_StalledInTransit ==
    /\ ~train.at_station
    /\ train.speed_kmh = 0
    /\ simTime > 0

C6_DirectionFlipsOnlyAtEnds ==
    [][train'.direction # train.direction =>
          \/ /\ train.direction = 1 /\ train'.direction = -1
             /\ train.current_station_idx = NumStations(line) - 1
          \/ /\ train.direction = -1 /\ train'.direction = 1
             /\ train.current_station_idx = 0]_vars
\* a vehicle has turned round at the last stop and is leaving it
C6_TurnedAtLastStop ==
    /\ train.current_station_idx = NumStations(line) - 1
    /\ train.direction = -1
    /\ ~train.at_station

\* C7: current_station_idx is a valid index, direction is -1 or +1, and the
\* next index of the tick and of the snapshot are valid indices
C7_IndicesValid ==
    LET n == NumStations(line)
    IN  /\ train.current_station_idx \in 0..(n - 1)
        /\ train.direction \in {-1, 1}
        /\ EndOfLine(train.current_station_idx, train.direction, n)
               .next_station_idx \in 0..(n - 1)
        /\ StatusNextIdx(train, line) \in 0..(n - 1)
\* a vehicle dwells at the last stop, still pointing beyond it
C7_DwellingAtLastStop ==
    /\ train.current_station_idx = NumStations(line) - 1
    /\ train.direction = 1
    /\ train.at_station

\* C8: the ETA of a snapshot is in [0, 999]: of the snapshot of the current
\* state and of every snapshot a caller holds
C8_EtaInRange ==
    /\ get_train_status(train, line, trainNo, rng).next_station_eta_seconds
           \in 0..ETA_CAP
    /\ \A c \in Callers : \A k \in 1..Len(obs[c]) :
           obs[c][k].next_station_eta_seconds \in 0..ETA_CAP
\* a dwelling vehicle whose last dwell tick overran the remaining dwell
C8_DwellOverrun ==
    /\ train.at_station
    /\ train.station_dwell_remaining < 0
    /\ obs[1] # <<>>
    /\ obs[1][1].at_station

\* C9: a snapshot reports the tunnel only for a Line 3 vehicle on the way
\* from the tunnel-entry stop (index 1) to the tunnel-exit stop (index 2)
C9_TunnelOnlyForwardFromEntry ==
    \A c \in Callers : \A k \in 1..Len(obs[c]) :
        obs[c][k].is_in_tunnel =>
            /\ obs[c][k].line = "line3"
            /\ obs[c][k].current_station_id = TUNNEL_ENTRY_STATION
            /\ obs[c][k].next_station_id = TUNNEL_EXIT_STATION

\* C10: a snapshot of a vehicle under way on the tunnel-entry segment reports
\* the tunnel and the relay mode, a snapshot on any other segment reports
\* neither, and the mode is the relay mode exactly when the tunnel is reported
C10_RelayOnlyOnTunnelSegment ==
    \A c \in Callers : \A k \in 1..Len(obs[c]) :
        LET s == obs[c][k]
            on_tunnel_segment ==
                /\ s.line = "line3"
                /\ s.current_station_id = TUNNEL_ENTRY_STATION
                /\ s.next_station_id = TUNNEL_EXIT_STATION
        IN  /\ (on_tunnel_segment /\ ~s.at_station /\ s.progress > 0)
                => (s.is_in_tunnel /\ s.comms_mode = "TUNNEL_RELAY")
            /\ ~on_tunnel_segment
                => (~s.is_in_tunnel /\ s.comms_mode = "NORMAL")
            /\ s.comms_mode = "TUNNEL_RELAY" <=> s.is_in_tunnel

\* the elapsed times T <= 1 s that split into two equal ticks
EvenDts == {2, Sec}

\* one tick by dt, then a second tick by dt on the stream the first one left
TickTwice(t, dt, ln, r) ==
    _update_train(_update_train(t, dt, ln, r), dt, ln,
                  Consume(r, UpdateDraws(t, dt, ln, r)))

\* C11: from a dwelling state, one tick by T <= 1 s and two ticks by T/2 on
\* the same jitter leave the vehicle in the same mode (dwelling or in
\* transit), at the same stop and with the same direction; the weakest part
\* of "the same resulting state within tolerance"
C11_IntervalIdempotentWhenDwelling ==
    train.at_station =>
        \A T \in EvenDts : \A r \in SteadyStreams :
            LET once == _update_train(train, T, line, r)
                twice == TickTwice(train, T \div 2, line, r)
            IN  /\ once.at_station = twice.at_station
                /\ once.current_station_idx = twice.current_station_idx
                /\ once.direction = twice.direction

\* C12: a dwelling vehicle whose station_dwell_remaining is 0 is, after one
\* tick of 1 s, in transit with progress > 0 and speed > 0, whatever the
\* jitter of the tick
C12_DepartsMovingWithinOneTick ==
    (train.at_station /\ train.station_dwell_remaining = 0) =>
        \A r \in SteadyStreams :
            LET t == _update_train(train, Sec, line, r)
            IN  /\ ~t.at_station
                /\ t.progress > 0
                /\ t.speed_kmh > 0

\* C13: a tick that brings the progress of a vehicle in transit to 1 or
\* beyond ends with the vehicle at the stop it was heading toward, with
\* progress 0, at_station, the full dwell time and speed 0
C13_ArrivalTransition ==
    [][LET dt == simTime' - simTime
           n == NumStations(line)
       IN  (/\ ~(train.at_station /\ train.station_dwell_remaining > 0)
            /\ Advance(train, dt, line, rng).progress >= One)
           => /\ train'.current_station_idx =
                     EndOfLine(train.current_station_idx, train.direction, n)
                         .next_station_idx
              /\ train'.current_station_idx # train.current_station_idx
              /\ train'.progress = 0
              /\ train'.at_station
              /\ train'.station_dwell_remaining = DwellTime
              /\ train'.speed_kmh = 0]_vars
\* a vehicle has arrived at a stop other than the one it was built at
C13_ArrivedElsewhere ==
    /\ train.at_station
    /\ train.station_dwell_remaining = DwellTime
    /\ train.current_station_idx # StartStationIdx(trainNo, line)

\* C14: the tick that departs from the last stop with direction +1 sets the
\* direction to -1 and heads to the last index but one; the tick that
\* departs from index 0 with direction -1 sets the direction to +1 and heads
\* to index 1; and no tick moves a vehicle to a stop that is not adjacent
C14_TurnsRoundAtRouteEnds ==
    [][LET n == NumStations(line)
           departs == train.at_station /\ train.station_dwell_remaining <= 0
       IN  /\ (departs /\ train.current_station_idx = n - 1 /\ train.direction = 1)
                  => /\ ~train'.at_station
                     /\ train'.direction = -1
                     /\ train'.current_station_idx = n - 1
                     /\ EndOfLine(train'.current_station_idx, train'.direction, n)
                            .next_station_idx = n - 2
                     /\ StatusNextIdx(train', line) = n - 2
           /\ (departs /\ train.current_station_idx = 0 /\ train.direction = -1)
                  => /\ ~train'.at_station
                     /\ train'.direction = 1
                     /\ train'.current_station_idx = 0
                     /\ EndOfLine(train'.current_station_idx, train'.direction, n)
                            .next_station_idx = 1
                     /\ StatusNextIdx(train', line) = 1
           /\ Abs(train'.current_station_idx - train.current_station_idx) <= 1]_vars
\* a vehicle that came down the route has turned round at the first stop
C14_TurnedAtFirstStop ==
    /\ train.current_station_idx = 0
    /\ train.direction = 1
    /\ ~train.at_station
    /\ StartDirection(trainNo) = -1

\* C15: whatever the interleaving of the callers, every snapshot is taken
\* from a TrainState between two complete ticks; in such a state a vehicle
\* at a station has progress 0 and speed 0 (its doors are reported open)
C15_SnapshotsOfWholeTicks ==
    \A c \in Callers : \A k \in 1..Len(obs[c]) :
        obs[c][k].at_station =>
            (obs[c][k].progress = 0 /\ obs[c][k].speed_kmh = 0)

\* C16: whatever the interleaving of the callers, no tick is applied with a
\* negative dt and last_update_time never decreases
C16_MonotoneView ==
    [][/\ \A c \in Callers : pc'[c] = "tick" => loc'[c].dt >= 0
       /\ train'.last_update_time >= train.last_update_time]_vars

\* C17: get_train_status leaves the TrainState as it found it: the state
\* after a call of get_all_trains is the state update() left (the tick's
\* result with the new stamp), whatever the snapshot reports
C17_StatusLeavesStateAlone ==
    [][train' = [_update_train(train, simTime' - simTime, line, rng)
                    EXCEPT !.last_update_time = now']]_vars
\* a snapshot of a vehicle dwelling at the first stop and pointing off the
\* route reports the second stop as the next one
C17_SnapshotAtFirstStop ==
    /\ train.at_station
    /\ train.current_station_idx = 0
    /\ train.direction = -1
    /\ obs[1] # <<>>
    /\ obs[1][1].at_station
    /\ obs[1][1].current_station_id = StationIds[line][1]
    /\ obs[1][1].next_station_id = StationIds[line][2]

\* C18: the direction label of a snapshot follows from the line and the sign
\* of direction alone: Line 1 reports SOUTHBOUND for +1 and NORTHBOUND for
\* -1, Lines 2 and 3 report WESTBOUND for +1 and EASTBOUND for -1
C18_DirectionLabel ==
    LET label(ln, direction) ==
            IF ln = "line1"
            THEN IF direction = 1 THEN "SOUTHBOUND" ELSE "NORTHBOUND"
            ELSE IF direction = 1 THEN "WESTBOUND" ELSE "EASTBOUND"
    IN  /\ train.direction \in {-1, 1}
        /\ _get_direction_string(train, line) = label(line, train.direction)
        /\ obs[1] # <<>> => obs[1][1].direction = label(line, train.direction)
\* a Line 1 vehicle that set out northbound is reported southbound
C18_SouthboundAfterTurn ==
    /\ line = "line1"
    /\ StartDirection(trainNo) = -1
    /\ obs[1] # <<>>
    /\ obs[1][1].direction = "SOUTHBOUND"


\* C19: a request that names a line or a vehicle that does not exist is
\* answered 404, by the stations of a line, by the train with an id and by
\* the train list filtered by line
C19_UnknownIdIsNotFound ==
    /\ (reply.op \in {"stations", "trains"} /\ reply.line_id # ""
            /\ reply.line_id \notin Lines) => reply.status = 404
    /\ (reply.op = "train" /\ reply.train_id \notin FleetIds)
            => reply.status = 404

\* C20: the tick that brings a dwelling vehicle's station_dwell_remaining to
\* 0 or below also takes it out of the station; it is in transit after that
\* same tick
C20_DepartsOnTickDwellEnds ==
    [][LET dt == simTime' - simTime
       IN  (/\ train.at_station
            /\ train.station_dwell_remaining > 0
            /\ train.station_dwell_remaining <= dt)
               => ~train'.at_station]_vars

\* C21: station_dwell_remaining is never negative, in the initial state and
\* after every tick
C21_DwellNeverNegative == train.station_dwell_remaining >= 0

\* C22: a tick with dt > 0 at whose end the vehicle is not braking, a
\* dwelling tick included, lowers a regen_temp that is above MIN_REGEN_TEMP
C22_CoolsWheneverNotBraking ==
    [][(/\ simTime' - simTime > 0
        /\ ~(train'.progress > BRAKE_START_PROGRESS /\ ~train'.at_station)
        /\ train.regen_temp > MinTemp)
           => train'.regen_temp < train.regen_temp]_vars

\* C23: a tick changes total_energy_recovered only if the vehicle is braking
\* at its end (progress above BRAKE_START_PROGRESS and not at a station)
C23_EnergyChangesOnlyWhenBraking ==
    [][train'.total_energy_recovered # train.total_energy_recovered
          => (train'.progress > BRAKE_START_PROGRESS /\ ~train'.at_station)]_vars
\* a tick has left the vehicle braking, with energy beyond what the
\* constructor can give
C23_BrakingWithEnergyAdded ==
    /\ train.progress > BRAKE_START_PROGRESS
    /\ ~train.at_station
    /\ train.last_update_time > 0
    /\ train.total_energy_recovered > UniformInit(0, 50, Kwh, 2)

\* C24: the dt update() passes to the tick is the clock gap since
\* last_update_time, at most 1 s, and update() then sets last_update_time to
\* the clock value it sampled, so the time beyond the cap is never applied
C24_DtCappedAndRestDropped ==
    [][/\ simTime' - simTime = Min(now' - train.last_update_time, Sec)
       /\ simTime' - simTime <= Sec
       /\ train'.last_update_time = now']_vars
\* calls more than 1 s apart: less simulated time than clock time has passed
C24_TimeDropped ==
    /\ simTime < now
    /\ train.last_update_time = now
    /\ now - simTime >= 2 * Sec

C26_VelocityProfile ==
    pc[1] = "target" =>
        LET progress == train.progress
            result == train.speed_kmh
            rampUp == (MAX_SPEED_KMH * Kmh * progress) \div ((One * 25) \div 100)
            rampDown == (MAX_SPEED_KMH * Kmh * (One - progress))
                            \div (One - (One * 75) \div 100)
        IN  /\ train.at_station => result = 0
            /\ (~train.at_station /\ 4 * progress < One)
                   => Abs(result - rampUp) <= 1
            /\ (~train.at_station /\ 4 * progress > 3 * One)
                   => Abs(result - rampDown) <= 1
            /\ (~train.at_station /\ 4 * progress >= One
                    /\ 4 * progress <= 3 * One)
                   => result = MAX_SPEED_KMH * Kmh
            /\ 0 <= result /\ result <= MAX_SPEED_KMH * Kmh
            /\ progress \in {0, One} => result = 0
\* the profile has been taken on the ramp down, strictly between 0 and the
\* maximum
C26_OnRampDown ==
    /\ pc[1] = "target"
    /\ ~train.at_station
    /\ train.progress > BRAKE_START_PROGRESS
    /\ 0 < train.speed_kmh /\ train.speed_kmh < MaxSpeed

\* C27: under ticks of 1 s that never stop, a vehicle at a station is
\* eventually in transit and a vehicle in transit is eventually at a station,
\* whatever the jitter
C27_AlwaysMovesOn ==
    /\ train.at_station ~> ~train.at_station
    /\ ~train.at_station ~> train.at_station

\* C28: a vehicle leaves a station only when its dwell has run out; an
\* arrival sets the dwell to STATION_DWELL_TIME and every tick of a held
\* vehicle keeps it at the station with speed 0 and takes exactly dt off the
\* dwell, so at least 15 s of simulated time pass between arrival and
\* departure
C28_FullDwellBeforeDeparture ==
    [][LET dt == simTime' - simTime
       IN  /\ (train.at_station /\ ~train'.at_station)
                  => train.station_dwell_remaining <= 0
           /\ (train.at_station /\ train.station_dwell_remaining > 0)
                  => /\ train'.at_station
                     /\ train'.speed_kmh = 0
                     /\ train'.current_station_idx = train.current_station_idx
                     /\ train'.station_dwell_remaining
                            = train.station_dwell_remaining - dt
           /\ (~train.at_station /\ train'.at_station)
                  => train'.station_dwell_remaining = STATION_DWELL_TIME * Sec]_vars
\* a dwell that began with an arrival has run out: more simulated time has
\* passed than the longest dwell a vehicle can be built with
C28_DwellRunOut ==
    /\ train.at_station
    /\ train.station_dwell_remaining <= 0
    /\ simTime > DwellTime + Sec

\* C29: a vehicle at a station has speed 0 and progress 0, and a snapshot of
\* it reports the doors open, the brake chopper off, speed 0 and progress 0
C29_DwellingStandsAtStop ==
    /\ train.at_station => (train.speed_kmh = 0 /\ train.progress = 0)
    /\ \A k \in 1..Len(obs[1]) :
          obs[1][k].at_station =>
              /\ obs[1][k].door_status = "OPEN"
              /\ ~obs[1][k].b_chop_status
              /\ obs[1][k].speed_kmh = 0
              /\ obs[1][k].progress = 0
\* a snapshot of a vehicle in the middle of a dwell that began with an arrival
C29_SnapshotMidDwell ==
    /\ train.at_station
    /\ 0 < train.station_dwell_remaining
    /\ train.station_dwell_remaining < DwellTime
    /\ simTime > DwellTime + Sec
    /\ obs[1] # <<>>
    /\ obs[1][1].door_status = "OPEN"

\* C30: a tick changes current_station_idx only by arriving, by one stop in
\* the direction the vehicle holds after the tick, with progress reset to 0;
\* and a tick that brings a vehicle in transit to a station changes it
C30_OneStopPerArrival ==
    [][/\ train'.current_station_idx # train.current_station_idx
          => /\ train'.at_station
             /\ train'.station_dwell_remaining = DwellTime
             /\ train'.progress = 0
             /\ train'.current_station_idx
                    = train.current_station_idx + train'.direction
             /\ train'.direction \in {-1, 1}
       /\ (~train.at_station /\ train'.at_station)
          => train'.current_station_idx # train.current_station_idx]_vars
\* a vehicle heading down the route has arrived one stop below, short of the
\* first stop
C30_ArrivedOneStopDown ==
    /\ train.at_station
    /\ train.station_dwell_remaining = DwellTime
    /\ train.direction = -1
    /\ train.current_station_idx > 0
    /\ train.current_station_idx < StartStationIdx(trainNo, line)

=============================================================================
